---------------------------- MODULE Spec2Model ----------------------------
(***************************************************************************)
(* Model of src/src/mod-ollama-chat_api.cpp: the OpenRouter chat client.   *)
(*                                                                         *)
(* Text that ends up inside the JSON request (prompt, system prompt,       *)
(* model name) and the seed handed to std::stoi are sequences of bytes, so *)
(* that UTF-8 validation and integer parsing are computed and not assumed. *)
(* Text that is only concatenated or compared (header lines, response      *)
(* bodies, replies, exception messages) is a TLA+ string.                  *)
(***************************************************************************)
EXTENDS Integers, Sequences, FiniteSets, TLC

VARIABLES
    config,     \* the g_OpenRouter* globals, read-only during a call
    frame,      \* the locals and control position of one QueryOllamaAPI call
    queue,      \* QueryManager: submitted, not yet taken queries
    workers,    \* QueryManager: what each worker is doing
    handles,    \* QueryManager: the future of each submission
    nextId      \* QueryManager: number of submissions so far

vars == <<config, frame, queue, workers, handles, nextId>>

----------------------------------------------------------------------------
(* Bounds of the model.                                                    *)

MaxPromptLen == 2
MaxSeedLen == 2
MaxSubmissions == 2
NumWorkers == 2

----------------------------------------------------------------------------
(* Byte strings.                                                           *)

RECURSIVE SeqsUpTo(_, _)
SeqsUpTo(S, n) ==
    IF n = 0 THEN {<<>>}
    ELSE LET shorter == SeqsUpTo(S, n - 1)
         IN  shorter \cup {Append(s, b) : s \in {t \in shorter : Len(t) = n - 1}, b \in S}

\* 'h', and the two bytes of U+00E9 (0xC3 0xA9): alone each of the two is
\* ill-formed UTF-8, together they are one valid character.
PromptAlphabet == {104, 195, 169}
Prompts == SeqsUpTo(PromptAlphabet, MaxPromptLen)

\* '7', 'a', '-', ' '
SeedAlphabet == {55, 97, 45, 32}

IsCont(b, lo, hi) == b >= lo /\ b <= hi

\* The serializer's UTF-8 decoder (nlohmann::detail::serializer::decode),
\* as the set of byte strings it accepts.
RECURSIVE ValidUtf8(_)
ValidUtf8(s) ==
    IF s = <<>> THEN TRUE
    ELSE LET b == Head(s)
             n == Len(s)
             need == IF b <= 127 THEN 0
                     ELSE IF b >= 194 /\ b <= 223 THEN 1
                     ELSE IF b >= 224 /\ b <= 239 THEN 2
                     ELSE IF b >= 240 /\ b <= 244 THEN 3
                     ELSE 4
             lo2 == IF b = 224 THEN 160 ELSE IF b = 240 THEN 144 ELSE 128
             hi2 == IF b = 237 THEN 159 ELSE IF b = 244 THEN 143 ELSE 191
         IN  /\ need <= 3
             /\ n >= need + 1
             /\ need >= 1 => IsCont(s[2], lo2, hi2)
             /\ \A i \in 3..(need + 1) : IsCont(s[i], 128, 191)
             /\ ValidUtf8(SubSeq(s, need + 2, n))

----------------------------------------------------------------------------
(* std::stoi(str): strtol in base 10 narrowed to int.                      *)

IntMax == 2147483647
IntMin == -IntMax - 1

IsSpace(b) == b \in {32, 9, 10, 11, 12, 13}
IsDigit(b) == b >= 48 /\ b <= 57

RECURSIVE SkipSpace(_)
SkipSpace(s) == IF s # <<>> /\ IsSpace(Head(s)) THEN SkipSpace(Tail(s)) ELSE s

\* Accumulates the digits as a non-positive number, so that INT_MIN is
\* representable; "range" once the magnitude leaves the int range.
RECURSIVE AccDigits(_, _)
AccDigits(s, acc) ==
    IF s = <<>> \/ ~IsDigit(Head(s)) THEN [ok |-> TRUE, neg |-> acc]
    ELSE LET d == Head(s) - 48
             limit == IntMin \div 10 + 1
         IN  IF acc > limit \/ (acc = limit /\ d <= 8)
             THEN AccDigits(Tail(s), acc * 10 - d)
             ELSE [ok |-> FALSE, neg |-> 0]

Stoi(str) ==
    LET s1 == SkipSpace(str)
        signed == s1 # <<>> /\ Head(s1) \in {43, 45}
        minus == signed /\ Head(s1) = 45
        s2 == IF signed THEN Tail(s1) ELSE s1
    IN  IF s2 = <<>> \/ ~IsDigit(Head(s2))
        THEN [threw |-> TRUE, what |-> "invalid_argument", value |-> 0]
        ELSE LET a == AccDigits(s2, 0)
             IN  IF ~a.ok \/ (~minus /\ a.neg = IntMin)
                 THEN [threw |-> TRUE, what |-> "out_of_range", value |-> 0]
                 ELSE [threw |-> FALSE, what |-> "",
                       value |-> IF minus THEN a.neg ELSE -a.neg]


----------------------------------------------------------------------------
(* Configuration: the globals of mod-ollama-chat_config.h that the file    *)
(* reads.  Temperature and top-p are in tenths.                            *)

Bytes(digits) == [i \in 1..Len(digits) |-> digits[i] + 48]

\* "2147483647", "2147483648", "-2147483648", "-2147483649"
BoundarySeeds ==
    { Bytes(<<2,1,4,7,4,8,3,6,4,7>>),
      Bytes(<<2,1,4,7,4,8,3,6,4,8>>),
      <<45>> \o Bytes(<<2,1,4,7,4,8,3,6,4,8>>),
      <<45>> \o Bytes(<<2,1,4,7,4,8,3,6,4,9>>) }

Seeds == SeqsUpTo(SeedAlphabet, MaxSeedLen) \cup BoundarySeeds

DefaultTemperature == 7
DefaultTopP == 9

ConfigDomain ==
    [ OpenRouterApiKey       |-> {"sk-or-key", ""},
      OpenRouterUrl          |-> {"https://openrouter.ai/api/v1/chat/completions"},
      OpenRouterModel        |-> {<<104>>, <<195>>},
      OpenRouterSystemPrompt |-> {<<104>>, <<>>, <<169>>},
      OpenRouterTemperature  |-> {DefaultTemperature, 10},
      OpenRouterTopP         |-> {DefaultTopP, 5},
      OpenRouterTopK         |-> {0, 40},
      OpenRouterMaxTokens    |-> {0, 256},
      OpenRouterSeed         |-> Seeds,
      OpenRouterSiteUrl      |-> {"", "https://example.org"},
      OpenRouterSiteName     |-> {"", "Realm"} ]

ConfigFields == DOMAIN ConfigDomain

BaseConfig ==
    [ OpenRouterApiKey       |-> "sk-or-key",
      OpenRouterUrl          |-> "https://openrouter.ai/api/v1/chat/completions",
      OpenRouterModel        |-> <<104>>,
      OpenRouterSystemPrompt |-> <<104>>,
      OpenRouterTemperature  |-> DefaultTemperature,
      OpenRouterTopP         |-> DefaultTopP,
      OpenRouterTopK         |-> 0,
      OpenRouterMaxTokens    |-> 0,
      OpenRouterSeed         |-> <<>>,
      OpenRouterSiteUrl      |-> "",
      OpenRouterSiteName     |-> "" ]

\* BaseConfig and every configuration that differs from it in one setting.
Configs ==
    {BaseConfig} \cup
    UNION {{[BaseConfig EXCEPT ![k] = v] : v \in ConfigDomain[k]} : k \in ConfigFields}

----------------------------------------------------------------------------
(* Exceptions and results.  A call ends by returning a string or by an     *)
(* exception leaving it.                                                   *)

NoThrow == [threw |-> FALSE, type |-> "", what |-> ""]
Throw(type, what) == [threw |-> TRUE, type |-> type, what |-> what]

\* Every exception type the file can meet derives from std::exception, which
\* is what the catch clauses of QueryOllamaAPI name.
StdExceptions ==
    {"std::runtime_error", "std::invalid_argument", "std::out_of_range",
     "json::parse_error", "json::type_error"}

----------------------------------------------------------------------------
(* HandleOpenRouterErrors                                                  *)

\* Mutant: the four named codes only, without the default branch.
HandleOpenRouterErrorsNamedOnly(response_code, response_body) ==
    CASE response_code = 400 ->
            Throw("std::runtime_error",
                  "Bad Request: Invalid parameters - " \o response_body)
      [] response_code = 401 ->
            Throw("std::runtime_error",
                  "Unauthorized: Invalid API key - " \o response_body)
      [] response_code = 402 ->
            Throw("std::runtime_error",
                  "Payment Required: Account issue - " \o response_body)
      [] response_code = 429 ->
            Throw("std::runtime_error",
                  "Rate Limited: Too many requests - " \o response_body)
      [] OTHER -> NoThrow

HandleOpenRouterErrors(response_code, response_body) ==
    CASE response_code = 400 ->
            Throw("std::runtime_error",
                  "Bad Request: Invalid parameters - " \o response_body)
      [] response_code = 401 ->
            Throw("std::runtime_error",
                  "Unauthorized: Invalid API key - " \o response_body)
      [] response_code = 402 ->
            Throw("std::runtime_error",
                  "Payment Required: Account issue - " \o response_body)
      [] response_code = 429 ->
            Throw("std::runtime_error",
                  "Rate Limited: Too many requests - " \o response_body)
      [] OTHER ->
            IF response_code >= 400
            THEN Throw("std::runtime_error",
                       "HTTP Error " \o ToString(response_code) \o " - " \o response_body)
            ELSE NoThrow

----------------------------------------------------------------------------
(* ConstructOpenRouterRequest.  The request is a function from its keys to *)
(* their values, as the JSON object is.                                    *)

WithKey(request, present, key, value) ==
    IF present THEN (key :> value) @@ request ELSE request

\* Mutant: the seed is taken whatever std::stoi makes of it.
SeedOfUnchecked(cfg) ==
    [present |-> cfg.OpenRouterSeed # <<>>, value |-> Stoi(cfg.OpenRouterSeed).value]

SeedOf(cfg) ==
    IF cfg.OpenRouterSeed = <<>>
    THEN [present |-> FALSE, value |-> 0]
    ELSE LET r == Stoi(cfg.OpenRouterSeed)
         IN  [present |-> ~r.threw, value |-> r.value]

\* Mutant: the user message is pushed before the system message.
MessagesUserFirst(cfg, prompt) ==
    <<[role |-> "user", content |-> prompt]>>
    \o (IF cfg.OpenRouterSystemPrompt # <<>>
        THEN <<[role |-> "system", content |-> cfg.OpenRouterSystemPrompt]>>
        ELSE <<>>)

Messages(cfg, prompt) ==
    (IF cfg.OpenRouterSystemPrompt # <<>>
     THEN <<[role |-> "system", content |-> cfg.OpenRouterSystemPrompt]>>
     ELSE <<>>)
    \o <<[role |-> "user", content |-> prompt]>>

ConstructOpenRouterRequest(cfg, prompt) ==
    LET r0 == ("model" :> cfg.OpenRouterModel) @@ ("messages" :> Messages(cfg, prompt))
        r1 == WithKey(r0, cfg.OpenRouterTemperature # DefaultTemperature,
                      "temperature", cfg.OpenRouterTemperature)
        r2 == WithKey(r1, cfg.OpenRouterTopP # DefaultTopP, "top_p", cfg.OpenRouterTopP)
        r3 == WithKey(r2, cfg.OpenRouterTopK > 0, "top_k", cfg.OpenRouterTopK)
        r4 == WithKey(r3, cfg.OpenRouterMaxTokens > 0,
                      "max_tokens", cfg.OpenRouterMaxTokens)
        seed == SeedOf(cfg)
        r5 == WithKey(r4, seed.present, "seed", seed.value)
    IN  [threw |-> FALSE, type |-> "", what |-> "",
         value |-> ("stream" :> FALSE) @@ r5]

\* nlohmann::json::dump() with its default, strict error handler: every
\* string of the value is checked to be UTF-8, and type_error 316 is thrown
\* at the first byte that is not.
Dump(request) ==
    LET strings == {request["model"]} \cup
                   {request["messages"][i].content : i \in DOMAIN request["messages"]}
    IN  IF \A str \in strings : ValidUtf8(str)
        THEN [threw |-> FALSE, type |-> "", what |-> "", text |-> <<request>>]
        ELSE [threw |-> TRUE, type |-> "json::type_error",
              what |-> "[json.exception.type_error.316] invalid UTF-8 byte",
              text |-> <<>>]

----------------------------------------------------------------------------
(* JSON values of a response, and the nlohmann::json operations that       *)
(* ParseOpenRouterResponse applies to them.                                *)

JNull == [t |-> "null"]
JStr(s) == [t |-> "string", s |-> s]
JNum(n) == [t |-> "number", n |-> n]
JArr(a) == [t |-> "array", a |-> a]
JObj(o) == [t |-> "object", o |-> o]
JEmptyObj == [t |-> "object", o |-> <<>>]

\* basic_json::contains(key): false for every value that is not an object.
Contains(j, key) == j.t = "object" /\ key \in DOMAIN j.o

\* basic_json::empty(): null is empty, a string or a number never is.
Empty(j) ==
    CASE j.t = "null" -> TRUE
      [] j.t = "array" -> Len(j.a) = 0
      [] j.t = "object" -> DOMAIN j.o = {}
      [] OTHER -> FALSE

Hello == JObj([message |-> JObj([content |-> JStr("hello")])])

\* The response bodies of the model, each with what json::parse makes of it.
ParseTable ==
    <<
      [text  |-> "<html>502 Bad Gateway</html>",
       ok    |-> FALSE, value |-> JNull],
      [text  |-> "",
       ok    |-> FALSE, value |-> JNull],
      [text  |-> "{\"choices\":[{\"message\":{\"content\":\"hello\"}}]}",
       ok    |-> TRUE,
       value |-> JObj([choices |-> JArr(<<Hello>>)])],
      [text  |-> "{\"choices\":[{\"message\":{\"content\":\"first\"}},{\"message\":{\"content\":\"hello\"}}]}",
       ok    |-> TRUE,
       value |-> JObj([choices |->
                    JArr(<<JObj([message |-> JObj([content |-> JStr("first")])]),
                           Hello>>)])],
      [text  |-> "{\"choices\":[{\"message\":{\"content\":\"\"}}]}",
       ok    |-> TRUE,
       value |-> JObj([choices |->
                    JArr(<<JObj([message |-> JObj([content |-> JStr("")])])>>)])],
      [text  |-> "{\"choices\":[{\"message\":{\"content\":null}}]}",
       ok    |-> TRUE,
       value |-> JObj([choices |->
                    JArr(<<JObj([message |-> JObj([content |-> JNull])])>>)])],
      [text  |-> "{\"choices\":[{\"message\":{}}]}",
       ok    |-> TRUE,
       value |-> JObj([choices |-> JArr(<<JObj([message |-> JEmptyObj])>>)])],
      [text  |-> "{\"choices\":[]}",
       ok    |-> TRUE,
       value |-> JObj([choices |-> JArr(<<>>)])],
      [text  |-> "{\"choices\":{\"first\":{\"message\":{\"content\":\"hello\"}}}}",
       ok    |-> TRUE,
       value |-> JObj([choices |-> JObj([first |-> Hello])])],
      [text  |-> "{}",
       ok    |-> TRUE, value |-> JEmptyObj],
      [text  |-> "[]",
       ok    |-> TRUE, value |-> JArr(<<>>)],
      [text  |-> "{\"error\":{\"message\":\"bad key\"}}",
       ok    |-> TRUE,
       value |-> JObj([error |-> JObj([message |-> JStr("bad key")])])],
      [text  |-> "{\"error\":{\"code\":401}}",
       ok    |-> TRUE,
       value |-> JObj([error |-> JObj([code |-> JNum(401)])])],
      [text  |-> "{\"error\":\"overloaded\"}",
       ok    |-> TRUE,
       value |-> JObj([error |-> JStr("overloaded")])],
      [text  |-> "{\"error\":null}",
       ok    |-> TRUE,
       value |-> JObj([error |-> JNull])],
      [text  |-> "{\"error\":{\"message\":42}}",
       ok    |-> TRUE,
       value |-> JObj([error |-> JObj([message |-> JNum(42)])])],
      [text  |-> "{\"choices\":[{\"message\":{\"content\":\"hello\"}}],\"error\":{\"message\":\"quota\"}}",
       ok    |-> TRUE,
       value |-> JObj([choices |-> JArr(<<Hello>>),
                       error |-> JObj([message |-> JStr("quota")])])]
    >>

Bodies == {ParseTable[i].text : i \in DOMAIN ParseTable}

\* nlohmann::json::parse(text)
JsonParse(text) ==
    LET row == ParseTable[CHOOSE i \in DOMAIN ParseTable : ParseTable[i].text = text]
    IN  IF row.ok
        THEN [threw |-> FALSE, type |-> "", what |-> "", value |-> row.value]
        ELSE [threw |-> TRUE, type |-> "json::parse_error",
              what |-> "[json.exception.parse_error.101] parse error",
              value |-> JNull]

\* basic_json::get<std::string>(): type_error 302 unless the value is a string.
GetString(j) ==
    IF j.t = "string"
    THEN [threw |-> FALSE, type |-> "", what |-> "", value |-> j.s]
    ELSE [threw |-> TRUE, type |-> "json::type_error",
          what |-> "[json.exception.type_error.302] type must be string, but is " \o j.t,
          value |-> ""]

Thrown(type, what) == [threw |-> TRUE, type |-> type, what |-> what, value |-> ""]

----------------------------------------------------------------------------
(* ParseOpenRouterResponse.  Its only catch clause is for                  *)
(* json::parse_error; a json::type_error leaves it as it is.               *)

ErrorMessage(error) ==
    IF Contains(error, "message")
    THEN GetString(error.o["message"])
    ELSE [threw |-> FALSE, type |-> "", what |-> "", value |-> "API Error"]

ParseOpenRouterResponse(response_json) ==
    LET parsed == JsonParse(response_json)
        response == parsed.value
    IN  IF parsed.threw
        THEN Thrown("std::runtime_error",
                    "Failed to parse JSON response: " \o parsed.what)
        ELSE IF Contains(response, "error")
        THEN LET error_msg == ErrorMessage(response.o["error"])
             IN  IF error_msg.threw THEN error_msg
                 ELSE Thrown("std::runtime_error",
                             "OpenRouter API Error: " \o error_msg.value)
        ELSE IF Contains(response, "choices") /\ ~Empty(response.o["choices"])
        THEN LET choices == response.o["choices"]
             IN  IF choices.t # "array"
                 THEN Thrown("json::type_error",
                             "[json.exception.type_error.305] cannot use operator[] with a numeric argument with "
                             \o choices.t)
                 ELSE LET choice == choices.a[1]
                      IN  IF Contains(choice, "message")
                             /\ Contains(choice.o["message"], "content")
                          THEN GetString(choice.o["message"].o["content"])
                          ELSE Thrown("std::runtime_error",
                                      "Invalid response format: missing choices or content")
        ELSE Thrown("std::runtime_error",
                    "Invalid response format: missing choices or content")

----------------------------------------------------------------------------
(* QueryOllamaAPI.  A frame holds the locals of one call; pc is the next   *)
(* statement group to run.  posts, inits, cleanups, headersFreed and       *)
(* parsed count what the call has done so far.                             *)

NotConfigured == "AI service not properly configured."
LostInThought == "Hmm... I'm lost in thought."
ErrorPreparing == "Error preparing request."
FailedToReach == "Failed to reach OpenRouter AI."
ServiceError == "AI service error occurred."
ErrorProcessing == "Error processing response."
TroubleUnderstanding == "I'm having trouble understanding."

CurlCodes == {"CURLE_OK", "CURLE_OPERATION_TIMEDOUT"}
ResponseCodes == {0, 200, 399, 400, 401, 402, 403, 429, 500}

NoResult == [kind |-> "none", type |-> "", text |-> ""]

InitFrame ==
    [ pc |-> "idle",
      prompt |-> <<>>,
      curl |-> "none",
      inits |-> 0,
      cleanups |-> 0,
      constructed |-> FALSE,
      requestData |-> <<>>,
      requestDataStr |-> <<>>,
      headers |-> <<>>,
      headersBuilt |-> FALSE,
      headersFreed |-> 0,
      posts |-> 0,
      res |-> "",
      response_code |-> 0,
      responseBuffer |-> "",
      raised |-> NoThrow,
      parsed |-> 0,
      botReply |-> "",
      result |-> NoResult ]

Return(f, text) ==
    [f EXCEPT !.pc = "returned",
              !.result = [kind |-> "string", type |-> "", text |-> text]]

\* An exception that no handler of the function catches.
Escape(f, e) ==
    [f EXCEPT !.pc = "thrown",
              !.result = [kind |-> "exception", type |-> e.type, text |-> e.what]]

\* catch (const std::exception& e)
Caught(e) == e.threw /\ e.type \in StdExceptions

CurlEasyCleanup(f) == [f EXCEPT !.curl = "released", !.cleanups = @ + 1]

CurlSlistFreeAll(f) == [f EXCEPT !.headersFreed = @ + 1]

Enter(prompt) == [InitFrame EXCEPT !.pc = "check_key", !.prompt = prompt]

\* Mutant: the key is not checked.
CheckApiKeyOmitted(cfg, f) == [f EXCEPT !.pc = "curl_init"]

\* lines 125-131
CheckApiKey(cfg, f) ==
    IF cfg.OpenRouterApiKey = ""
    THEN Return(f, NotConfigured)
    ELSE [f EXCEPT !.pc = "curl_init"]

\* lines 133-139; ok is whether curl_easy_init returned a handle
CurlEasyInit(f, ok) ==
    IF ~ok
    THEN Return(f, LostInThought)
    ELSE [f EXCEPT !.curl = "live", !.inits = @ + 1, !.pc = "construct"]

\* lines 141-153
Construct(cfg, f) ==
    LET r == ConstructOpenRouterRequest(cfg, f.prompt)
    IN  IF Caught(r)
        THEN Return(CurlEasyCleanup(f), ErrorPreparing)
        ELSE IF r.threw THEN Escape(f, r)
        ELSE [f EXCEPT !.requestData = r.value, !.constructed = TRUE, !.pc = "dump"]

\* line 155, outside every try block
Serialize(f) ==
    LET d == Dump(f.requestData)
    IN  IF d.threw
        THEN Escape(f, d)
        ELSE [f EXCEPT !.requestDataStr = d.text, !.pc = "headers"]

\* lines 157-171
SetupHeaders(cfg, f) ==
    LET h0 == << "Authorization: Bearer " \o cfg.OpenRouterApiKey,
                 "Content-Type: application/json" >>
        h1 == IF cfg.OpenRouterSiteUrl # ""
              THEN Append(h0, "HTTP-Referer: " \o cfg.OpenRouterSiteUrl) ELSE h0
        h2 == IF cfg.OpenRouterSiteName # ""
              THEN Append(h1, "X-Title: " \o cfg.OpenRouterSiteName) ELSE h1
    IN  [f EXCEPT !.headers = h2, !.headersBuilt = TRUE, !.pc = "perform"]

\* lines 173-202; res, code and body are what the exchange produced
Perform(f, res, code, body) ==
    LET f1 == [f EXCEPT !.posts = @ + 1,
                        !.res = res,
                        !.response_code = code,
                        !.responseBuffer = body]
        f2 == CurlEasyCleanup(CurlSlistFreeAll(f1))
    IN  IF res # "CURLE_OK"
        THEN Return(f2, FailedToReach)
        ELSE [f2 EXCEPT !.pc = "classify"]

\* Mutant: the status code is not looked at.
ClassifyOmitted(f) == [f EXCEPT !.pc = "parse"]

\* lines 204-212
Classify(f) ==
    LET e == HandleOpenRouterErrors(f.response_code, f.responseBuffer)
        f1 == [f EXCEPT !.raised = e]
    IN  IF Caught(e)
        THEN Return(f1, ServiceError)
        ELSE IF e.threw THEN Escape(f1, e)
        ELSE [f1 EXCEPT !.pc = "parse"]

\* lines 214-223
Parse(f) ==
    LET r == ParseOpenRouterResponse(f.responseBuffer)
        f1 == [f EXCEPT !.parsed = @ + 1,
                        !.raised = [threw |-> r.threw, type |-> r.type, what |-> r.what]]
    IN  IF Caught(r)
        THEN Return(f1, ErrorProcessing)
        ELSE IF r.threw THEN Escape(f1, r)
        ELSE [f1 EXCEPT !.botReply = r.value, !.pc = "check_reply"]

\* lines 225-236
CheckReply(f) ==
    IF f.botReply = ""
    THEN Return(f, TroubleUnderstanding)
    ELSE Return(f, f.botReply)

Ended(f) == f.pc \in {"returned", "thrown"}

\* What the network and libcurl contribute to one call.
Exchanges ==
    [curlOk : BOOLEAN, res : CurlCodes, code : ResponseCodes, body : Bodies]

StepFrame(cfg, f, x) ==
    CASE f.pc = "check_key" -> CheckApiKey(cfg, f)
      [] f.pc = "curl_init" -> CurlEasyInit(f, x.curlOk)
      [] f.pc = "construct" -> Construct(cfg, f)
      [] f.pc = "dump" -> Serialize(f)
      [] f.pc = "headers" -> SetupHeaders(cfg, f)
      [] f.pc = "perform" -> Perform(f, x.res, x.code, x.body)
      [] f.pc = "classify" -> Classify(f)
      [] f.pc = "parse" -> Parse(f)
      [] f.pc = "check_reply" -> CheckReply(f)
      [] OTHER -> f

\* One whole call, from its first statement to its return or throw.
RECURSIVE RunFrame(_, _, _)
RunFrame(cfg, f, x) ==
    IF Ended(f) THEN f ELSE RunFrame(cfg, StepFrame(cfg, f, x), x)

QueryOllamaAPI(cfg, prompt, x) == RunFrame(cfg, Enter(prompt), x).result

----------------------------------------------------------------------------
(* The synchronous specification: one call of QueryOllamaAPI, statement    *)
(* group by statement group.                                               *)

asyncVars == <<queue, workers, handles, nextId>>

Idle == [busy |-> FALSE, id |-> 0, prompt |-> <<>>]

Init ==
    /\ config \in Configs
    /\ frame = InitFrame
    /\ queue = <<>>
    /\ workers = [w \in 1..NumWorkers |-> Idle]
    /\ handles = <<>>
    /\ nextId = 0

Call(prompt) ==
    /\ frame.pc = "idle"
    /\ frame' = Enter(prompt)
    /\ UNCHANGED <<config, asyncVars>>

StepCheckApiKey ==
    /\ frame.pc = "check_key"
    /\ frame' = CheckApiKey(config, frame)
    /\ UNCHANGED <<config, asyncVars>>

StepCurlEasyInit(ok) ==
    /\ frame.pc = "curl_init"
    /\ frame' = CurlEasyInit(frame, ok)
    /\ UNCHANGED <<config, asyncVars>>

StepConstruct ==
    /\ frame.pc = "construct"
    /\ frame' = Construct(config, frame)
    /\ UNCHANGED <<config, asyncVars>>

StepSerialize ==
    /\ frame.pc = "dump"
    /\ frame' = Serialize(frame)
    /\ UNCHANGED <<config, asyncVars>>

StepSetupHeaders ==
    /\ frame.pc = "headers"
    /\ frame' = SetupHeaders(config, frame)
    /\ UNCHANGED <<config, asyncVars>>

StepPerform(res, code, body) ==
    /\ frame.pc = "perform"
    /\ frame' = Perform(frame, res, code, body)
    /\ UNCHANGED <<config, asyncVars>>

StepClassify ==
    /\ frame.pc = "classify"
    /\ frame' = Classify(frame)
    /\ UNCHANGED <<config, asyncVars>>

StepParse ==
    /\ frame.pc = "parse"
    /\ frame' = Parse(frame)
    /\ UNCHANGED <<config, asyncVars>>

StepCheckReply ==
    /\ frame.pc = "check_reply"
    /\ frame' = CheckReply(frame)
    /\ UNCHANGED <<config, asyncVars>>

Next ==
    \/ \E prompt \in Prompts : Call(prompt)
    \/ StepCheckApiKey
    \/ \E ok \in BOOLEAN : StepCurlEasyInit(ok)
    \/ StepConstruct
    \/ StepSerialize
    \/ StepSetupHeaders
    \/ \E res \in CurlCodes, code \in ResponseCodes, body \in Bodies :
          StepPerform(res, code, body)
    \/ StepClassify
    \/ StepParse
    \/ StepCheckReply

Spec == Init /\ [][Next]_vars

----------------------------------------------------------------------------
(* The asynchronous specification: SubmitQuery and the QueryManager it     *)
(* forwards to.  The manager is declared in mod-ollama-chat_api.h; it is   *)
(* modelled as sections 4.6 and 5 of the specification describe it: a      *)
(* queue under a lock, workers that take one query at a time, run          *)
(* QueryOllamaAPI on it and complete the query's handle with the outcome.  *)
(* A call of QueryOllamaAPI shares nothing with another call, so a worker  *)
(* runs it in one step.                                                    *)

Pending(prompt) ==
    [state |-> "pending", prompt |-> prompt, sets |-> 0, result |-> NoResult]

AsyncConfigs == {BaseConfig, [BaseConfig EXCEPT !.OpenRouterApiKey = ""]}

InitAsync ==
    /\ config \in AsyncConfigs
    /\ frame = InitFrame
    /\ queue = <<>>
    /\ workers = [w \in 1..NumWorkers |-> Idle]
    /\ handles = <<>>
    /\ nextId = 0

\* std::future<std::string> SubmitQuery(const std::string& prompt)
SubmitQuery(prompt) ==
    /\ nextId < MaxSubmissions
    /\ nextId' = nextId + 1
    /\ queue' = Append(queue, [id |-> nextId + 1, prompt |-> prompt])
    /\ handles' = Append(handles, Pending(prompt))
    /\ UNCHANGED <<config, frame, workers>>

WorkerTake(w) ==
    /\ ~workers[w].busy
    /\ queue # <<>>
    /\ workers' = [workers EXCEPT ![w] =
                      [busy |-> TRUE, id |-> Head(queue).id, prompt |-> Head(queue).prompt]]
    /\ queue' = Tail(queue)
    /\ UNCHANGED <<config, frame, handles, nextId>>

\* The worker's call of QueryOllamaAPI; what the call returns, or the
\* exception that leaves it, is stored in the handle.
WorkerRun(w, x) ==
    /\ workers[w].busy
    /\ handles' = [handles EXCEPT ![workers[w].id] =
                      [@ EXCEPT !.state = "ready",
                                !.sets = @ + 1,
                                !.result = QueryOllamaAPI(config, workers[w].prompt, x)]]
    /\ workers' = [workers EXCEPT ![w] = Idle]
    /\ UNCHANGED <<config, frame, queue, nextId>>

NextAsync ==
    \/ \E prompt \in Prompts : SubmitQuery(prompt)
    \/ \E w \in 1..NumWorkers : WorkerTake(w)
    \/ \E w \in 1..NumWorkers, x \in Exchanges : WorkerRun(w, x)

SpecAsync == InitAsync /\ [][NextAsync]_vars

----------------------------------------------------------------------------
(* Helpers of the properties.                                              *)

StartsWith(s, p) == Len(s) >= Len(p) /\ SubSeq(s, 1, Len(p)) = p
EndsWith(s, p) == Len(s) >= Len(p) /\ SubSeq(s, Len(s) - Len(p) + 1, Len(s)) = p
Occurs(p, s) == \E i \in 1..(Len(s) - Len(p) + 1) : SubSeq(s, i, i + Len(p) - 1) = p

Returned(text) == frame.pc = "returned" /\ frame.result.text = text
KeyConfigured == config.OpenRouterApiKey # ""

----------------------------------------------------------------------------
(* C1: a call of QueryOllamaAPI never ends by an exception leaving it.     *)
(* Refuted by the code: the serialization at line 155 is outside every try *)
(* block and throws on a prompt that is not UTF-8.                         *)
C1_NoExceptionEscapes == frame.pc # "thrown"

(* C2: with an empty API key every call returns exactly "AI service not    *)
(* properly configured.", and neither acquires a transport handle nor      *)
(* performs a network call.                                                *)
C2_NoKeyShortCircuits ==
    (~KeyConfigured /\ frame.pc # "idle") =>
        /\ frame.pc \in {"check_key", "returned"}
        /\ frame.pc = "returned" => frame.result = [kind |-> "string", type |-> "",
                                                    text |-> NotConfigured]
        /\ frame.posts = 0
        /\ frame.inits = 0
        /\ frame.curl = "none"

C2_Witness ==
    /\ ~KeyConfigured
    /\ frame.prompt = <<104, 104>>
    /\ Returned(NotConfigured)

(* C6: a call performs exactly one POST when the API key is configured and *)
(* the request was constructed, and none otherwise.  Refuted by the code:  *)
(* after the exception of C1 the constructed request is never posted.      *)
C6_ExactlyOnePostWhenConstructed ==
    Ended(frame) =>
        frame.posts = (IF KeyConfigured /\ frame.constructed THEN 1 ELSE 0)

(* C10: at the end of a call every handle acquired by curl_easy_init has   *)
(* been released exactly once and the header list, when built, has been    *)
(* freed exactly once.  Refuted by the code: the exception of C1 leaves    *)
(* the function with the handle still live.                                *)
C10_HandleReleasedOnEveryPath ==
    Ended(frame) =>
        /\ frame.cleanups = frame.inits
        /\ frame.curl # "live"
        /\ frame.headersFreed = (IF frame.headersBuilt THEN 1 ELSE 0)

(* C5: every handle that has been completed holds a string, never a fault. *)
(* Refuted by the code: the exception of C1 is what the worker's call of   *)
(* QueryOllamaAPI yields for a prompt that is not UTF-8.                   *)
C5_HandlesResolveToStrings ==
    \A i \in DOMAIN handles :
        handles[i].state = "ready" => handles[i].result.kind = "string"

----------------------------------------------------------------------------
(* C3.  The steps of a call, in the order the claim gives them, with the   *)
(* handle acquisition the code runs between the key check and the request  *)
(* construction.                                                           *)

ExchangeCompleted == frame.posts = 1 /\ frame.res = "CURLE_OK"
HttpError == frame.response_code >= 400
ParseOutcome == ParseOpenRouterResponse(frame.responseBuffer)

FixedReplies ==
    {NotConfigured, ErrorPreparing, FailedToReach, ServiceError, ErrorProcessing,
     TroubleUnderstanding}

\* The reply of the first step that fails, the handle acquisition included.
FirstFailureReply ==
    IF ~KeyConfigured THEN NotConfigured
    ELSE IF frame.inits = 0 THEN LostInThought
    ELSE IF ~frame.constructed THEN ErrorPreparing
    ELSE IF ~ExchangeCompleted THEN FailedToReach
    ELSE IF HttpError THEN ServiceError
    ELSE IF ParseOutcome.threw THEN ErrorProcessing
    ELSE IF ParseOutcome.value = "" THEN TroubleUnderstanding
    ELSE ParseOutcome.value

\* The same without the handle acquisition: the claim as it was made.
ClaimedReply ==
    IF ~KeyConfigured THEN NotConfigured
    ELSE IF ~frame.constructed THEN ErrorPreparing
    ELSE IF ~ExchangeCompleted THEN FailedToReach
    ELSE IF HttpError THEN ServiceError
    ELSE IF ParseOutcome.threw THEN ErrorProcessing
    ELSE IF ParseOutcome.value = "" THEN TroubleUnderstanding
    ELSE ParseOutcome.value

(* C3 as claimed: every value a call returns is one of the six fixed       *)
(* replies, that of the first failing step among key check, construction,  *)
(* transport, HTTP classification, parsing and empty-reply check, or else  *)
(* the extracted reply.  Refuted: a failed curl_easy_init returns a        *)
(* seventh text, "Hmm... I'm lost in thought.".                            *)
C3_OnlyTheSixListedReplies ==
    frame.pc = "returned" =>
        /\ frame.result.text = ClaimedReply
        /\ frame.result.text \in FixedReplies
              \/ (/\ ExchangeCompleted /\ ~HttpError /\ ~ParseOutcome.threw
                  /\ frame.result.text = ParseOutcome.value)

(* C3 as amended: every value a call returns is the reply of the first     *)
(* step that fails in the order key check, handle acquisition, request     *)
(* construction, transport, HTTP classification, parsing, empty-reply      *)
(* check, and the extracted reply when none fails; after a status >= 400   *)
(* the reply is "AI service error occurred." and the body was not parsed.  *)
C3_ReturnsFirstFailure ==
    frame.pc = "returned" =>
        /\ frame.result.kind = "string"
        /\ frame.result.text = FirstFailureReply
        /\ (ExchangeCompleted /\ HttpError) =>
              (frame.result.text = ServiceError /\ frame.parsed = 0)
        /\ frame.parsed <= 1
        /\ frame.parsed = 1 => (ExchangeCompleted /\ ~HttpError)

C3_Witness ==
    /\ Returned(ServiceError)
    /\ ExchangeCompleted
    /\ frame.response_code = 500
    /\ frame.responseBuffer = "{\"choices\":[{\"message\":{\"content\":\"hello\"}}]}"

----------------------------------------------------------------------------
(* C4.  The state right after HandleOpenRouterErrors ran on a completed    *)
(* exchange: the call goes on to the parser, or has returned without       *)
(* having parsed.                                                          *)

Classified ==
    /\ ExchangeCompleted
    /\ frame.pc \in {"parse", "returned"}
    /\ frame.parsed = 0

KindOfCode(code) ==
    CASE code = 400 -> "invalid parameters"
      [] code = 401 -> "unauthorized"
      [] code = 402 -> "account issue"
      [] code = 429 -> "rate limited"
      [] OTHER -> "generic"

KindOfMessage(what) ==
    CASE StartsWith(what, "Bad Request: Invalid parameters - ") -> "invalid parameters"
      [] StartsWith(what, "Unauthorized: Invalid API key - ") -> "unauthorized"
      [] StartsWith(what, "Payment Required: Account issue - ") -> "account issue"
      [] StartsWith(what, "Rate Limited: Too many requests - ") -> "rate limited"
      [] StartsWith(what, "HTTP Error ") -> "generic"
      [] OTHER -> "unknown"

\* The message of the raised error without the body at its end.
RaisedLabel ==
    SubSeq(frame.raised.what, 1, Len(frame.raised.what) - Len(frame.responseBuffer))

(* C4 as claimed: an error is raised iff the code is >= 400, its kind is   *)
(* the one of the code, and it carries the numeric code and the body       *)
(* unchanged.  Refuted: the errors of 400, 401, 402 and 429 carry a fixed  *)
(* label and the body, and not the number.                                 *)
C4_ErrorCarriesCodeAndBody ==
    Classified =>
        /\ frame.raised.threw <=> frame.response_code >= 400
        /\ frame.raised.threw =>
              /\ KindOfMessage(frame.raised.what) = KindOfCode(frame.response_code)
              /\ EndsWith(frame.raised.what, frame.responseBuffer)
              /\ Occurs(ToString(frame.response_code), RaisedLabel)

(* C4 as amended: an error is raised iff the code is >= 400, whatever the  *)
(* body is; its kind is the one of the code; its message ends with the     *)
(* body unchanged; and the number of the code is in the message for the    *)
(* generic kind only, the four named kinds carrying their label instead.   *)
C4_ErrorKindAndBody ==
    Classified =>
        /\ frame.raised.threw <=> frame.response_code >= 400
        /\ frame.raised.threw =>
              /\ frame.raised.type = "std::runtime_error"
              /\ KindOfMessage(frame.raised.what) = KindOfCode(frame.response_code)
              /\ EndsWith(frame.raised.what, frame.responseBuffer)
              /\ Occurs(ToString(frame.response_code), RaisedLabel)
                    <=> KindOfCode(frame.response_code) = "generic"

C4_Witness ==
    /\ Classified
    /\ frame.response_code = 401
    /\ frame.responseBuffer = "<html>502 Bad Gateway</html>"
    /\ frame.raised.threw
    /\ frame.raised.what = "Unauthorized: Invalid API key - <html>502 Bad Gateway</html>"

----------------------------------------------------------------------------
(* C7: a well-formed body with a top-level "error" entry makes the parser  *)
(* fail with the application error "OpenRouter API Error: <message>", the  *)
(* message being the entry's "message" when present and "API Error"        *)
(* otherwise; nothing is extracted and the call returns "Error processing  *)
(* response.".  Refuted by the code: a "message" that is not a string      *)
(* makes get<std::string>() throw a json::type_error instead.              *)

ResponseValue == JsonParse(frame.responseBuffer).value

C7_ErrorEntryIsApplicationError ==
    (frame.parsed = 1 /\ Contains(ResponseValue, "error")) =>
        LET error == ResponseValue.o["error"]
        IN  /\ frame.raised.threw
            /\ frame.raised.type = "std::runtime_error"
            /\ StartsWith(frame.raised.what, "OpenRouter API Error: ")
            /\ ~Contains(error, "message") =>
                  frame.raised.what = "OpenRouter API Error: API Error"
            /\ (Contains(error, "message") /\ error.o["message"].t = "string") =>
                  frame.raised.what = "OpenRouter API Error: " \o error.o["message"].s
            /\ frame.botReply = ""
            /\ Returned(ErrorProcessing)

----------------------------------------------------------------------------
(* C8: the message list of the constructed request is [system, user] with  *)
(* the configured system prompt when that is non-empty and [user] when it  *)
(* is empty; there is exactly one user message, it is last, and its        *)
(* content is the prompt unchanged.                                        *)

RequestMessages == frame.requestData["messages"]

C8_MessageList ==
    frame.constructed =>
        LET m == RequestMessages
            sys == config.OpenRouterSystemPrompt
        IN  /\ sys # <<>> =>
                  m = << [role |-> "system", content |-> sys],
                         [role |-> "user", content |-> frame.prompt] >>
            /\ sys = <<>> => m = << [role |-> "user", content |-> frame.prompt] >>
            /\ Cardinality({i \in DOMAIN m : m[i].role = "user"}) = 1
            /\ m[Len(m)] = [role |-> "user", content |-> frame.prompt]

C8_Witness ==
    /\ frame.constructed
    /\ config.OpenRouterSystemPrompt = <<104>>
    /\ frame.prompt = <<195, 169>>
    /\ Len(RequestMessages) = 2

C8_WitnessNoSystemPrompt ==
    /\ frame.constructed
    /\ config.OpenRouterSystemPrompt = <<>>
    /\ frame.prompt = <<104>>
    /\ Len(RequestMessages) = 1

----------------------------------------------------------------------------
(* C9.  What std::stoi accepts, stated on the text and without computing   *)
(* the number: optional white space, an optional sign, then at least one   *)
(* digit, the digits up to the first other character being a number of the *)
(* int range.                                                              *)

RECURSIVE DigitRun(_)
DigitRun(s) ==
    IF s # <<>> /\ IsDigit(Head(s)) THEN <<Head(s)>> \o DigitRun(Tail(s)) ELSE <<>>

RECURSIVE StripZeros(_)
StripZeros(d) == IF d # <<>> /\ Head(d) = 48 THEN StripZeros(Tail(d)) ELSE d

RECURSIVE LexLeq(_, _)
LexLeq(a, b) ==
    \/ a = <<>>
    \/ Head(a) < Head(b)
    \/ Head(a) = Head(b) /\ LexLeq(Tail(a), Tail(b))

ParsesAsInt(seed) ==
    LET s1 == SkipSpace(seed)
        minus == s1 # <<>> /\ Head(s1) = 45
        plus == s1 # <<>> /\ Head(s1) = 43
        run == StripZeros(DigitRun(IF minus \/ plus THEN Tail(s1) ELSE s1))
        most == IF minus THEN Bytes(<<2,1,4,7,4,8,3,6,4,8>>)
                ELSE Bytes(<<2,1,4,7,4,8,3,6,4,7>>)
    IN  /\ DigitRun(IF minus \/ plus THEN Tail(s1) ELSE s1) # <<>>
        /\ Len(run) < 10 \/ (Len(run) = 10 /\ LexLeq(run, most))

(* C9: the constructed request has a "seed" key exactly when the seed      *)
(* string is non-empty and parses as an integer; a seed that fails to      *)
(* parse never makes the construction fail, and no call returns "Error     *)
(* preparing request.".                                                    *)
C9_SeedNeverAborts ==
    /\ frame.pc \notin {"idle", "check_key", "curl_init", "construct"} /\ frame.inits = 1
          => frame.constructed
    /\ frame.constructed =>
          ("seed" \in DOMAIN frame.requestData
              <=> (config.OpenRouterSeed # <<>> /\ ParsesAsInt(config.OpenRouterSeed)))
    /\ frame.result.text # ErrorPreparing

C9_Witness ==
    /\ config.OpenRouterSeed = <<55, 97>>
    /\ "seed" \in DOMAIN frame.requestData
    /\ frame.requestData["seed"] = 7
    /\ frame.posts = 1

C9_WitnessOutOfRange ==
    /\ config.OpenRouterSeed = Bytes(<<2,1,4,7,4,8,3,6,4,8>>)
    /\ frame.constructed
    /\ "seed" \notin DOMAIN frame.requestData
    /\ frame.posts = 1

C9_WitnessNonNumeric ==
    /\ config.OpenRouterSeed = <<97>>
    /\ frame.constructed
    /\ "seed" \notin DOMAIN frame.requestData
    /\ frame.posts = 1

=============================================================================
